---- MODULE Spec2Model ----
(***************************************************************************)
(* Model of absorbance96_mcp.py: three MCP tools around a Byonoy           *)
(* Absorbance 96 reader.                                                   *)
(*   connect_byonoy_reader       opens the first device, stores its handle *)
(*   read_tartrazine_absorbance  two-phase initialize / measure            *)
(*   calculate_assay_metrics     R^2 of a 6-point curve and average CV     *)
(* Numbers are exact rationals <<n, d>> (d > 0, lowest terms); a standard  *)
(* deviation is an exact surd coef * sqrt(rad).  The vendor SDK is an      *)
(* external collaborator: each SDK call returns a nondeterministic outcome.*)
(***************************************************************************)
EXTENDS Integers, Sequences, FiniteSets, TLC

VARIABLES byonoy_device_handle, tool, wavelength, step, absorbance_values,
          concentrations, sdk_calls, result

vars == <<byonoy_device_handle, tool, wavelength, step, absorbance_values,
          concentrations, sdk_calls, result>>

(***************************************************************************)
(* Bounds of the model and constants of the program                        *)
(***************************************************************************)
\* longest generated absorbance_values list (tokens)
MaxAbsLen == 6
\* longest generated concentrations list (tokens)
MaxConcLen == 7
\* abs_list[:6]
CurveSize == 6
\* range(0, min(len(abs_list), 18), 3)
CvLimit == 18
\* range(..., 3) / abs_list[i:i+3] / len(replicate_group) == 3
GroupSize == 3
\* wavelength: int = 450
DefaultWavelength == 450

(***************************************************************************)
(* Exact rational arithmetic (Python floats, taken without rounding)       *)
(***************************************************************************)
AbsInt(x) == IF x < 0 THEN -x ELSE x

RECURSIVE GCD(_, _)
GCD(a, b) == IF b = 0 THEN a ELSE GCD(b, a % b)

\* the rational n/d in lowest terms with a positive denominator (d # 0)
Rat(n, d) ==
    LET s == IF d < 0 THEN -1 ELSE 1
        g == GCD(AbsInt(n), AbsInt(d))
    IN  <<(s * n) \div g, (s * d) \div g>>

R(n) == <<n, 1>>
RZero == <<0, 1>>
RAdd(x, y) == Rat(x[1] * y[2] + y[1] * x[2], x[2] * y[2])
RSub(x, y) == Rat(x[1] * y[2] - y[1] * x[2], x[2] * y[2])
RMul(x, y) == Rat(x[1] * y[1], x[2] * y[2])
\* y # 0
RDiv(x, y) == Rat(x[1] * y[2], x[2] * y[1])
RLeq(x, y) == x[1] * y[2] <= y[1] * x[2]
RLess(x, y) == x[1] * y[2] < y[1] * x[2]

RECURSIVE RSum(_)
RSum(s) == IF s = <<>> THEN RZero ELSE RAdd(Head(s), RSum(Tail(s)))

Min(a, b) == IF a < b THEN a ELSE b

(***************************************************************************)
(* Exact square roots: a surd [coef, rad] is coef * sqrt(rad), rad         *)
(* square-free; a real is a set of surds with distinct rad and coef # 0    *)
(***************************************************************************)
RECURSIVE SqPartFrom(_, _, _)
SqPartFrom(m, f, best) ==
    IF f * f > m THEN best
    ELSE SqPartFrom(m, f + 1, IF m % (f * f) = 0 THEN f ELSE best)

\* the largest f with f*f dividing m (m >= 1)
SqPart(m) == SqPartFrom(m, 1, 1)

\* math.sqrt of a rational v >= 0
Sqrt(v) ==
    IF v[1] = 0 THEN [coef |-> RZero, rad |-> 1]
    ELSE LET m == v[1] * v[2]
             f == SqPart(m)
         IN  [coef |-> Rat(f, v[2]), rad |-> m \div (f * f)]

SurdScale(s, k) == [coef |-> RMul(s.coef, k), rad |-> s.rad]

RealZero == {}
RealOf(x) == IF x = RZero THEN RealZero ELSE {[coef |-> x, rad |-> 1]}

\* the sum of the coefficients of the surds of seq s that have radicand r
RECURSIVE CoefSum(_, _)
CoefSum(s, r) ==
    IF s = <<>> THEN RZero
    ELSE RAdd(IF Head(s).rad = r THEN Head(s).coef ELSE RZero, CoefSum(Tail(s), r))

(***************************************************************************)
(* statistics.mean / statistics.stdev                                      *)
(***************************************************************************)
\* statistics.mean of a non-empty sequence of rationals
mean(s) == RDiv(RSum(s), R(Len(s)))

\* statistics.stdev: sqrt(sum((x - mean)^2) / (n - 1)), n >= 2
stdev(s) ==
    LET m == mean(s)
        ss == RSum([i \in 1..Len(s) |-> RMul(RSub(s[i], m), RSub(s[i], m))])
    IN  Sqrt(RDiv(ss, R(Len(s) - 1)))

\* statistics.mean of a non-empty sequence of surds, as a real
SurdMean(s) ==
    LET rads == {s[i].rad : i \in 1..Len(s)}
        tot(r) == RDiv(CoefSum(s, r), R(Len(s)))
    IN  {[coef |-> tot(r), rad |-> r] : r \in {q \in rads : tot(q) # RZero}}

(***************************************************************************)
(* calculate_assay_metrics, lines 100-133                                  *)
(* A text argument is the sequence of its comma-separated tokens; a token  *)
(* is [ok, val]: ok says float(x.strip()) accepts it, val is its value.    *)
(***************************************************************************)
Tok(n) == [ok |-> TRUE, val |-> R(n)]
TokQ(n, d) == [ok |-> TRUE, val |-> Rat(n, d)]
\* a token float() rejects ("a", "", "1.2.3")
BadTok == [ok |-> FALSE, val |-> RZero]

Parseable(tokens) == \A i \in 1..Len(tokens) : tokens[i].ok
ParseList(tokens) == [i \in 1..Len(tokens) |-> tokens[i].val]

\* abs_list[:6]
abs_curve(al) == SubSeq(al, 1, Min(CurveSize, Len(al)))

\* statistics.mean(conc_list): the mean of the whole concentrations list
mean_conc(cl) == mean(cl)
mean_abs(curve) == mean(curve)

\* conc_list[i] for i in range(n) raises IndexError when the list is shorter
IndexRaises(cl, curve) == Len(cl) < Len(curve)

numerator(cl, curve) ==
    LET mc == mean_conc(cl)
        ma == mean_abs(curve)
    IN  RSum([i \in 1..Len(curve) |-> RMul(RSub(cl[i], mc), RSub(curve[i], ma))])

denom_conc(cl, curve) ==
    LET mc == mean_conc(cl)
    IN  RSum([i \in 1..Len(curve) |-> RMul(RSub(cl[i], mc), RSub(cl[i], mc))])

\* the sum stops one reading short of the curve
denom_abs_short(curve) ==
    LET ma == mean_abs(curve)
    IN  RSum([i \in 1..(Len(curve) - 1) |->
                RMul(RSub(curve[i], ma), RSub(curve[i], ma))])

denom_abs(curve) ==
    LET ma == mean_abs(curve)
    IN  RSum([i \in 1..Len(curve) |-> RMul(RSub(curve[i], ma), RSub(curve[i], ma))])

r_squared(cl, curve) ==
    LET num == numerator(cl, curve)
        den == RMul(denom_conc(cl, curve), denom_abs(curve))
    IN  IF RLess(RZero, den) THEN RDiv(RMul(num, num), den) ELSE RZero

\* the triplicates are taken from the readings after the curve
GroupStarts_after_curve(al) ==
    {i \in CurveSize..(Min(Len(al), CvLimit) - 1) : i % GroupSize = 0}

\* range(0, min(len(abs_list), 18), 3)
GroupStarts(al) == {i \in 0..(Min(Len(al), CvLimit) - 1) : i % GroupSize = 0}

\* abs_list[i:i+3]
replicate_group(al, i) == SubSeq(al, i + 1, Min(i + GroupSize, Len(al)))

\* the starts whose group passes len(replicate_group) == 3
CompleteStarts(al) ==
    {i \in GroupStarts(al) : Len(replicate_group(al, i)) = GroupSize}

\* (statistics.stdev(g) / statistics.mean(g)) * 100, mean(g) # 0
cv(g) == SurdScale(SurdScale(stdev(g), RDiv(R(1), mean(g))), R(100))

\* the division raises ZeroDivisionError in a group whose mean is 0
CvRaises(al) == \E i \in CompleteStarts(al) : mean(replicate_group(al, i)) = RZero

\* cv_values.append(cv), in loop order
cv_values(al) ==
    LET cs == CompleteStarts(al)
        kth(k) == CHOOSE i \in cs : Cardinality({j \in cs : j < i}) = k - 1
    IN  [k \in 1..Cardinality(cs) |-> cv(replicate_group(al, kth(k)))]

avg_cv(al) == IF cv_values(al) # <<>> THEN SurdMean(cv_values(al)) ELSE RealZero

(***************************************************************************)
(* What a tool invocation hands back                                       *)
(***************************************************************************)
Str(kind, detail) ==
    [type |-> "str", kind |-> kind, detail |-> detail,
     r_squared |-> RZero, avg_cv |-> RealZero]
\* a function body that ends without a return statement
NoneValue ==
    [type |-> "NoneType", kind |-> "none", detail |-> "",
     r_squared |-> RZero, avg_cv |-> RealZero]
\* no invocation has returned yet
Pending ==
    [type |-> "pending", kind |-> "pending", detail |-> "",
     r_squared |-> RZero, avg_cv |-> RealZero]
\* f"R²: {r_squared:.4f}, Average CV: {avg_cv:.2f}%": the two values rendered
Metrics(r2, cvavg) ==
    [type |-> "str", kind |-> "metrics", detail |-> "R2, Average CV",
     r_squared |-> r2, avg_cv |-> cvavg]

CalcError(e) == Str("error", "Error calculating metrics: " \o e)

CalcResult(a, c) ==
    IF ~Parseable(a) \/ ~Parseable(c) THEN CalcError("ValueError")
    ELSE LET al == ParseList(a)
             cl == ParseList(c)
             curve == abs_curve(al)
         IN  IF IndexRaises(cl, curve) THEN CalcError("IndexError")
             ELSE IF CvRaises(al) THEN CalcError("ZeroDivisionError")
             ELSE Metrics(r_squared(cl, curve), avg_cv(al))

(***************************************************************************)
(* The vendor SDK (byonoy_devices): outcomes of its calls                  *)
(***************************************************************************)
\* the name byonoy_device_handle is not bound (line 16 is commented out)
Unbound == "<unbound>"
Handles == {"h1", "h2"}
ErrorCodes == {"NO_ERROR", "DEVICE_ERROR"}
SlotStates == {"EMPTY", "OCCUPIED"}
Wavelengths == {DefaultWavelength, 600}
Steps == {"initialize", "measure", "calibrate"}

Outcome(raised, code, flag, count, slot, handle, wls) ==
    [raised |-> raised, code |-> code, flag |-> flag, count |-> count,
     slot |-> slot, handle |-> handle, wls |-> wls]
Raise == Outcome(TRUE, "-", FALSE, 0, "-", "-", {})
Code(c) == Outcome(FALSE, c, FALSE, 0, "-", "-", {})
Flag(b) == Outcome(FALSE, "-", b, 0, "-", "-", {})
Count(n) == Outcome(FALSE, "-", FALSE, n, "-", "-", {})

\* available_devices_count() and len(available_devices())
CountOutcomes == {Raise, Count(0), Count(1)}
\* open_device(devices[0]) -> (result_code, device_handle)
OpenOutcomes ==
    {Raise} \cup {[Code(c) EXCEPT !.handle = h] : c \in ErrorCodes, h \in Handles}
\* device_slot_status_supported / abs96_available_wavelengths_supported
FlagOutcomes == {Raise, Flag(TRUE), Flag(FALSE)}
\* get_device_slot_status -> (result_code, slot_status)
SlotOutcomes ==
    {Raise} \cup {[Code(c) EXCEPT !.slot = s] : c \in ErrorCodes, s \in SlotStates}
\* abs96_get_available_wavelengths -> (result_code, abs_wavelengths)
WavelengthOutcomes ==
    {Raise} \cup {[Code(c) EXCEPT !.wls = w] : c \in ErrorCodes,
                                              w \in {{}, {DefaultWavelength}}}
\* abs96_initialize_single_measurement / abs96_single_measure -> result_code
CodeOutcomes == {Raise} \cup {Code(c) : c \in ErrorCodes}

Call(fn, out) == [fn |-> fn, out |-> out]
Run(calls, h, res) == [calls |-> calls, handle |-> h, result |-> res]

\* except Exception as e: return f"Error: {str(e)}"
Caught(e) == Str("exception", "Error: " \o e)

(***************************************************************************)
(* connect_byonoy_reader, lines 19-36                                      *)
(***************************************************************************)
\* the handle is stored before the result code is looked at
HandleAfterOpen_unchecked(h, op) == op.handle

\* lines 30-31: the handle is stored only under NO_ERROR
HandleAfterOpen(h, op) == IF op.code = "NO_ERROR" THEN op.handle ELSE h

ConnectRun(h, cnt, devs, op) ==
    LET c1 == <<Call("available_devices_count", cnt)>>
        c2 == c1 \o <<Call("available_devices", devs)>>
        c3 == c2 \o <<Call("open_device", op)>>
    IN  IF cnt.raised THEN Run(c1, h, Caught("available_devices_count"))
        ELSE IF cnt.count = 0 THEN Run(c1, h, Str("no_devices", "No Byonoy devices found"))
        ELSE IF devs.raised THEN Run(c2, h, Caught("available_devices"))
        ELSE IF devs.count = 0 THEN Run(c2, h, Caught("IndexError"))
        ELSE IF op.raised THEN Run(c3, h, Caught("open_device"))
        ELSE IF op.code = "NO_ERROR"
             THEN Run(c3, HandleAfterOpen(h, op),
                      Str("connected", "Connected to Byonoy device successfully"))
             ELSE Run(c3, HandleAfterOpen(h, op), Str("connect_failed", "Failed to connect"))

connect_byonoy_reader ==
    \E cnt \in CountOutcomes, devs \in CountOutcomes, op \in OpenOutcomes :
        LET run == ConnectRun(byonoy_device_handle, cnt, devs, op)
        IN  /\ tool' = "connect_byonoy_reader"
            /\ byonoy_device_handle' = run.handle
            /\ sdk_calls' = run.calls
            /\ result' = run.result
            /\ UNCHANGED <<wavelength, step, absorbance_values, concentrations>>

(***************************************************************************)
(* read_tartrazine_absorbance, lines 45-95                                 *)
(***************************************************************************)
\* the comparison with EMPTY is inverted
SlotBlocksInitialize_inverted(q) == q.code = "NO_ERROR" /\ q.slot = "EMPTY"

\* line 56: the slot query succeeded and reports a plate
SlotBlocksInitialize(q) == q.code = "NO_ERROR" /\ q.slot # "EMPTY"
\* line 78: the slot query succeeded and reports no plate
SlotBlocksMeasure(q) == q.code = "NO_ERROR" /\ q.slot = "EMPTY"

\* lines 60-72, reached with the calls made so far
InitializeRun(h, w, calls, wsup, wq, ini) ==
    LET c1 == calls \o <<Call("abs96_available_wavelengths_supported", wsup)>>
        c2 == c1 \o <<Call("abs96_get_available_wavelengths", wq)>>
        c3 == c2 \o <<Call("abs96_initialize_single_measurement", ini)>>
    IN  IF wsup.raised THEN Run(c1, h, Caught("abs96_available_wavelengths_supported"))
        ELSE IF ~wsup.flag THEN Run(c1, h, NoneValue)
        ELSE IF wq.raised THEN Run(c2, h, Caught("abs96_get_available_wavelengths"))
        ELSE IF w \notin wq.wls THEN Run(c2, h, Str("wavelength", "Wavelength not available"))
        ELSE IF ini.raised THEN Run(c3, h, Caught("abs96_initialize_single_measurement"))
        ELSE IF ini.code = "NO_ERROR"
             THEN Run(c3, h, Str("initialized", "Measurement initialized. INSERT PLATE NOW"))
             ELSE Run(c3, h, Str("init_failed", "Initialize failed"))

\* lines 82-89
MeasureRun(h, calls, meas) ==
    LET c1 == calls \o <<Call("abs96_single_measure", meas)>>
    IN  IF meas.raised THEN Run(c1, h, Caught("abs96_single_measure"))
        ELSE IF meas.code = "NO_ERROR" THEN Run(c1, h, Str("values", "Absorbance values"))
        ELSE Run(c1, h, Str("measure_failed", "Measurement failed. Check plate positioning."))

ReadRun(h, w, s, ssup, sq, wsup, wq, act) ==
    LET c1 == <<Call("device_slot_status_supported", ssup)>>
        c2 == c1 \o <<Call("get_device_slot_status", sq)>>
    IN  IF h = Unbound THEN Run(<<>>, h, Caught("NameError"))
        ELSE IF h = "None"
             THEN Run(<<>>, h, Str("not_connected", "Please connect to Byonoy reader first"))
        ELSE IF s \notin {"initialize", "measure"}
             THEN Run(<<>>, h, Str("invalid_step", "Invalid step"))
        ELSE IF ssup.raised THEN Run(c1, h, Caught("device_slot_status_supported"))
        ELSE IF ssup.flag /\ sq.raised THEN Run(c2, h, Caught("get_device_slot_status"))
        ELSE IF s = "initialize"
             THEN IF ssup.flag /\ SlotBlocksInitialize(sq)
                  THEN Run(c2, h, Str("remove_plate", "Remove plate first"))
                  ELSE InitializeRun(h, w, IF ssup.flag THEN c2 ELSE c1, wsup, wq, act)
             ELSE IF ssup.flag /\ SlotBlocksMeasure(sq)
                  THEN Run(c2, h, Str("no_plate", "No plate detected. Please insert plate first."))
                  ELSE MeasureRun(h, IF ssup.flag THEN c2 ELSE c1, act)

\* the outcomes drawn for an SDK call: none but Raise when the call is not made
Drawn(S, made) == IF made THEN S ELSE {Raise}

read_tartrazine_absorbance ==
    \E w \in Wavelengths, s \in Steps :
    \E ssup \in Drawn(FlagOutcomes, byonoy_device_handle # Unbound /\ s \in {"initialize", "measure"}) :
    \E sq \in Drawn(SlotOutcomes, ~ssup.raised /\ ssup.flag) :
    \E wsup \in Drawn(FlagOutcomes, ~ssup.raised /\ s = "initialize") :
    \E wq \in Drawn(WavelengthOutcomes, ~wsup.raised /\ wsup.flag) :
    \E act \in Drawn(CodeOutcomes, ~ssup.raised /\ ~sq.raised) :
        LET run == ReadRun(byonoy_device_handle, w, s, ssup, sq, wsup, wq, act)
        IN  /\ tool' = "read_tartrazine_absorbance"
            /\ wavelength' = w
            /\ step' = s
            /\ byonoy_device_handle' = run.handle
            /\ sdk_calls' = run.calls
            /\ result' = run.result
            /\ UNCHANGED <<absorbance_values, concentrations>>

(***************************************************************************)
(* calculate_assay_metrics as a tool invocation                            *)
(***************************************************************************)
calculate_assay_metrics(a, c) ==
    /\ tool' = "calculate_assay_metrics"
    /\ absorbance_values' = a
    /\ concentrations' = c
    /\ sdk_calls' = <<>>
    /\ result' = CalcResult(a, c)
    /\ UNCHANGED <<byonoy_device_handle, wavelength, step>>

(***************************************************************************)
(* Argument texts                                                          *)
(***************************************************************************)
\* concentrations: str = "0,10,20,50,100,200"
DefaultConcentrations == <<Tok(0), Tok(10), Tok(20), Tok(50), Tok(100), Tok(200)>>
\* "0.1,0.2,0.3,0.4,0.5,0.6"
ScenarioSix ==
    <<TokQ(1, 10), TokQ(2, 10), TokQ(3, 10), TokQ(4, 10), TokQ(5, 10), TokQ(6, 10)>>
\* "0.1,0.1,0.1,0.2,0.2,0.2,0.3,0.3,0.3"
ScenarioTriplicates ==
    <<TokQ(1, 10), TokQ(1, 10), TokQ(1, 10), TokQ(2, 10), TokQ(2, 10), TokQ(2, 10),
      TokQ(3, 10), TokQ(3, 10), TokQ(3, 10)>>
\* "a,b,c"
ScenarioMalformed == <<BadTok, BadTok, BadTok>>
\* 21 readings, seven internally equal triplicates: one more than CvLimit covers
ScenarioLong == [i \in 1..(CvLimit + GroupSize) |-> Tok(1 + ((i - 1) \div GroupSize))]

\* "1,2,3,-1,-2,-3": two triplicates whose CVs are 50% and -50%
ScenarioSigned == <<Tok(1), Tok(2), Tok(3), Tok(-1), Tok(-2), Tok(-3)>>
\* "0,1,x": one token float() rejects
ScenarioOneBad == <<Tok(0), Tok(1), BadTok>>

AbsTokens == {Tok(0), Tok(1)}
ConcTokens == {Tok(0), Tok(1)}
\* six positive readings, each 1 or 2
PositiveCurves == [1..CurveSize -> {Tok(1), Tok(2)}]

SeqsUpTo(S, n) == UNION {[1..k -> S] : k \in 1..n}

AbsInputs ==
    SeqsUpTo(AbsTokens, MaxAbsLen)
        \cup PositiveCurves
        \cup {ScenarioSix, ScenarioTriplicates, ScenarioMalformed, ScenarioLong,
              ScenarioSigned, ScenarioOneBad}
ConcInputs ==
    SeqsUpTo(ConcTokens, MaxConcLen)
        \cup {DefaultConcentrations, ScenarioMalformed, ScenarioOneBad}

\* the texts the session specification passes
SessionAbsInputs == {ScenarioSix, ScenarioTriplicates, ScenarioMalformed}
SessionConcInputs == {DefaultConcentrations, <<Tok(0), Tok(10), Tok(20)>>}

(***************************************************************************)
(* Spec: the tool session from process start                               *)
(***************************************************************************)
Init ==
    /\ byonoy_device_handle = Unbound
    /\ tool = "none"
    /\ wavelength = DefaultWavelength
    /\ step = "initialize"
    /\ absorbance_values = <<>>
    /\ concentrations = DefaultConcentrations
    /\ sdk_calls = <<>>
    /\ result = Pending

calculate ==
    \E a \in SessionAbsInputs, c \in SessionConcInputs : calculate_assay_metrics(a, c)

Next ==
    \/ connect_byonoy_reader
    \/ read_tartrazine_absorbance
    \/ calculate

Spec == Init /\ [][Next]_vars

(***************************************************************************)
(* SpecCalc: one calculate_assay_metrics invocation on drawn arguments     *)
(***************************************************************************)
InitCalc ==
    /\ byonoy_device_handle = Unbound
    /\ tool = "none"
    /\ wavelength = DefaultWavelength
    /\ step = "initialize"
    /\ absorbance_values \in AbsInputs
    /\ concentrations \in ConcInputs
    /\ sdk_calls = <<>>
    /\ result = Pending

invoke_calculate ==
    /\ tool = "none"
    /\ calculate_assay_metrics(absorbance_values, concentrations)

NextCalc == invoke_calculate

SpecCalc == InitCalc /\ [][NextCalc]_vars

(***************************************************************************)
(* Vocabulary of the properties                                            *)
(***************************************************************************)
Calculated == tool = "calculate_assay_metrics"
Read == tool = "read_tartrazine_absorbance"
Connected == tool = "connect_byonoy_reader"
AbsOK == Parseable(absorbance_values)
ConcOK == Parseable(concentrations)
IsMetrics == result.type = "str" /\ result.kind = "metrics"

\* the first CurveSize tokens of t (Len(t) >= CurveSize) are all equal
FirstSixEqual(t) == \A i, j \in 1..CurveSize : t[i].val = t[j].val

\* the first CurveSize pairs lie on a line absorbance = k * concentration + c, k # 0
Linear(a, c) ==
    \E i, j \in 1..CurveSize :
        /\ c[i].val # c[j].val
        /\ a[i].val # a[j].val
        /\ \A l \in 1..CurveSize :
              RMul(RSub(a[l].val, a[i].val), RSub(c[j].val, c[i].val))
                = RMul(RSub(a[j].val, a[i].val), RSub(c[l].val, c[i].val))

\* the three tokens of t from index i + 1 are identical
Identical3(t, i) == t[i + 1].val = t[i + 2].val /\ t[i + 2].val = t[i + 3].val

\* every complete window of 3 from index 0 within the first 18 readings is constant
TriplicatesIdentical(t) ==
    \A g \in 0..((CvLimit \div GroupSize) - 1) :
        GroupSize * g + GroupSize <= Len(t) => Identical3(t, GroupSize * g)

Made(fn) == \E i \in 1..Len(sdk_calls) : sdk_calls[i].fn = fn
\* a slot-status query that succeeded and reported a state satisfying P
SlotReportedEmpty ==
    \E i \in 1..Len(sdk_calls) :
        /\ sdk_calls[i].fn = "get_device_slot_status"
        /\ ~sdk_calls[i].out.raised
        /\ sdk_calls[i].out.code = "NO_ERROR"
        /\ sdk_calls[i].out.slot = "EMPTY"
SlotReportedOccupied ==
    \E i \in 1..Len(sdk_calls) :
        /\ sdk_calls[i].fn = "get_device_slot_status"
        /\ ~sdk_calls[i].out.raised
        /\ sdk_calls[i].out.code = "NO_ERROR"
        /\ sdk_calls[i].out.slot # "EMPTY"

(***************************************************************************)
(* C1                                                                      *)
(***************************************************************************)
\* C1: every invocation of the three tools returns a text string, whatever the
\* arguments, the handle and the SDK outcomes.  (Stated as claimed; the code
\* returns None from step "initialize" when wavelength listing is unsupported.)
C1_AlwaysReturnsString == tool # "none" => result.type = "str"

(***************************************************************************)
(* C2                                                                      *)
(***************************************************************************)
\* C2: for at least 6 concentrations, not all of the first 6 equal, and at least
\* 6 absorbances with the first 6 on a line of non-zero slope over them, the
\* tool reports R^2 = 1.  (Stated as claimed.)
C2_LinearGivesOne ==
    (/\ Calculated /\ AbsOK /\ ConcOK
     /\ Len(absorbance_values) >= CurveSize
     /\ Len(concentrations) >= CurveSize
     /\ Linear(absorbance_values, concentrations))
        => (IsMetrics /\ result.r_squared = R(1))

C4_ZeroVarianceGivesZero ==
    (/\ Calculated /\ AbsOK /\ ConcOK
     /\ Len(absorbance_values) >= CurveSize
     /\ Len(concentrations) >= CurveSize
     /\ (FirstSixEqual(concentrations) \/ FirstSixEqual(absorbance_values)))
        => (IsMetrics /\ result.r_squared = RZero)

(***************************************************************************)
(* C5                                                                      *)
(***************************************************************************)
AllPositive(t) == \A i \in 1..Len(t) : RLess(RZero, t[i].val)

\* C5 as claimed: exactly 6 readings leave no complete triplicate group, so the
\* reported average CV is 0.
C5_SixReadingsGiveZeroCV ==
    (/\ Calculated /\ AbsOK /\ ConcOK
     /\ Len(absorbance_values) = CurveSize
     /\ Len(concentrations) >= CurveSize)
        => (IsMetrics /\ result.avg_cv = RealZero)

\* C5 amended: with exactly 6 positive readings the windows 0-2 and 3-5 of the
\* curve readings are two complete triplicates; the tool returns metrics whose
\* average CV is 0 exactly when both windows are internally constant, and is
\* 35% for "0.1,0.2,0.3,0.4,0.5,0.6".
C5_SixReadingsTwoGroups ==
    /\ (/\ Calculated /\ AbsOK /\ ConcOK
        /\ Len(absorbance_values) = CurveSize
        /\ Len(concentrations) >= CurveSize
        /\ AllPositive(absorbance_values))
          => /\ IsMetrics
             /\ result.avg_cv = RealZero
                  <=> (Identical3(absorbance_values, 0)
                         /\ Identical3(absorbance_values, GroupSize))
    /\ (/\ Calculated
        /\ absorbance_values = ScenarioSix
        /\ concentrations = DefaultConcentrations)
          => (IsMetrics /\ result.avg_cv = RealOf(R(35)))

C5_Witness ==
    /\ Calculated
    /\ absorbance_values = ScenarioSix
    /\ concentrations = DefaultConcentrations
    /\ IsMetrics
    /\ result.avg_cv = RealOf(R(35))

(***************************************************************************)
(* C6                                                                      *)
(***************************************************************************)
\* C6: whenever every complete triplicate within the first 18 readings consists
\* of three identical values (zeros included), the tool returns metrics with
\* average CV 0, never an error.  (Stated as claimed.)
C6_IdenticalTriplicatesGiveZeroCV ==
    (/\ Calculated /\ AbsOK /\ ConcOK
     /\ Len(concentrations) >= CurveSize
     /\ TriplicatesIdentical(absorbance_values))
        => (IsMetrics /\ result.avg_cv = RealZero)

(***************************************************************************)
(* C7                                                                      *)
(***************************************************************************)
\* C7: for every parseable absorbance list, fewer than 6 concentrations give an
\* error message, never a metrics result.  (Stated as claimed.)
C7_ShortConcentrationsGiveError ==
    (Calculated /\ AbsOK /\ Len(concentrations) < CurveSize)
        => (result.type = "str" /\ result.kind = "error")

(***************************************************************************)
(* C8                                                                      *)
(***************************************************************************)
\* C8 as claimed: initialize arms the measurement only after the slot was
\* reported EMPTY, measure reads only after the slot was reported non-empty.
C8_ActionOnlyAfterValidation ==
    /\ (Read /\ Made("abs96_initialize_single_measurement")) => SlotReportedEmpty
    /\ (Read /\ Made("abs96_single_measure")) => SlotReportedOccupied

\* C8 amended: initialize arms the measurement only if no successful slot-status
\* query reported a plate (the slot was reported EMPTY, or slot status is
\* unsupported, or the query returned an error code); measure reads only if no
\* successful query reported EMPTY.
C8_ActionUnlessContradicted ==
    /\ (Read /\ Made("abs96_initialize_single_measurement"))
          => (step = "initialize" /\ ~SlotReportedOccupied)
    /\ (Read /\ Made("abs96_single_measure"))
          => (step = "measure" /\ ~SlotReportedEmpty)

\* the measurement is armed although slot status is unsupported
C8_Witness ==
    /\ Read /\ step = "initialize"
    /\ Made("abs96_initialize_single_measurement")
    /\ ~Made("get_device_slot_status")

(***************************************************************************)
(* C9                                                                      *)
(***************************************************************************)
\* C9: a read before any successful connect returns "Please connect to Byonoy
\* reader first" and makes no SDK call.  (Stated as claimed.)
C9_NotConnectedMessage ==
    (Read /\ byonoy_device_handle = Unbound)
        => (result.type = "str" /\ result.kind = "not_connected" /\ sdk_calls = <<>>)

(***************************************************************************)
(* C10                                                                     *)
(***************************************************************************)
OpenedWith(calls, h) ==
    /\ Len(calls) = 3
    /\ calls[3].fn = "open_device"
    /\ ~calls[3].out.raised
    /\ calls[3].out.code = "NO_ERROR"
    /\ calls[3].out.handle = h

\* C10: the handle changes only in a connect whose open_device returned
\* NO_ERROR, and then holds the handle just returned; every other call leaves it
\* unchanged, so a bound handle never becomes unbound again.
C10_HandleChangesOnlyOnOpen ==
    [][/\ byonoy_device_handle' # byonoy_device_handle
          => (tool' = "connect_byonoy_reader"
                /\ OpenedWith(sdk_calls', byonoy_device_handle'))
       /\ (tool' = "connect_byonoy_reader"
             /\ \E h \in Handles : OpenedWith(sdk_calls', h))
          => OpenedWith(sdk_calls', byonoy_device_handle')
       /\ byonoy_device_handle # Unbound => byonoy_device_handle' # Unbound]_vars

\* a failed connect after a successful one: the earlier handle is still held
C10_Witness ==
    /\ Connected
    /\ result.kind = "connect_failed"
    /\ byonoy_device_handle \in Handles

====
